---- MODULE Spec2Model ----
(***************************************************************************)
(* Model of the CoinMarketCap CORS proxy worker (src/worker.js).           *)
(*                                                                         *)
(* Each request is a small process: the fetch handler runs synchronously   *)
(* up to its first await (the upstream fetch), is resumed when the         *)
(* upstream response head arrives, awaits the body (response.json()), and  *)
(* is resumed again to produce the outbound response.  The upstream API    *)
(* and the network are the environment.                                    *)
(***************************************************************************)
EXTENDS Integers, Sequences, FiniteSets, TLC

VARIABLES
    pc,         \* pc[r]: position of request r's handler
    req,        \* req[r]: the inbound request (method, path, query parameters, arrival time)
    env,        \* env[r]: the env binding passed to fetch(request, env, ctx)
    upstream,   \* upstream[r]: the outbound upstream call of request r
    calls,      \* calls[r]: every upstream request r's handler has issued
    resp,       \* resp[r]: every response r's handler has returned
    received    \* number of requests received so far

vars == <<pc, req, env, upstream, calls, resp, received>>

\* ------------------------------------------------------------------ bounds

\* Requests received in one behaviour.
MaxRequests == 2

\* ------------------------------------------------------- JavaScript values

JSUndefined == [t |-> "undefined"]
JSNull == [t |-> "null"]
Str(s) == [t |-> "str", s |-> s]
Num(n) == [t |-> "num", n |-> n]
\* An object: its own properties in creation order, keys unique.
Obj(mem) == [t |-> "obj", mem |-> mem]
\* A query-string value: a string held as a sequence of chunks ("" is <<>>).
QStr(cs) == [t |-> "qstr", cs |-> cs]

\* Let(e, F) is F(e) with e evaluated once, however often F uses it.
Let(e, F(_)) == CHOOSE y \in {F(x) : x \in {e}} : TRUE

\* An operation either returns a value or throws an error with a message.
Ok(v) == [k |-> "ok", v |-> v]
Throw(m) == [k |-> "throw", message |-> m]

\* ToBoolean: undefined, null, "", 0 are falsy.
Truthy(v) ==
    CASE v.t = "undefined" -> FALSE
      [] v.t = "null" -> FALSE
      [] v.t = "str" -> v.s # ""
      [] v.t = "qstr" -> v.cs # <<>>
      [] v.t = "num" -> v.n # 0
      [] OTHER -> TRUE

\* a || b
OrElse(a, b) == IF Truthy(a) THEN a ELSE b

HasKey(mem, key) == \E i \in 1..Len(mem) : mem[i][1] = key
KeyIndex(mem, key) == CHOOSE i \in 1..Len(mem) : mem[i][1] = key

\* v.name: throws on null and undefined, is undefined on a primitive or a
\* missing property.
GetProp(v, name) ==
    IF v.t \in {"null", "undefined"}
    THEN Throw("Cannot read properties of " \o v.t)
    ELSE IF v.t = "obj" /\ HasKey(v.mem, name)
         THEN Ok(v.mem[KeyIndex(v.mem, name)][2])
         ELSE Ok(JSUndefined)

\* v?.name: undefined when v is null or undefined, v.name otherwise.
OptChain(v, name) ==
    IF v.t \in {"null", "undefined"} THEN JSUndefined ELSE GetProp(v, name).v

\* ------------------------------------------------------------------- JSON
\* A JSON text is kept as its syntax tree with the lexical detail a parse
\* drops: whitespace (ws), the spelling of a number (mant * 10^exp) and
\* repeated keys of an object.  [t |-> "bad"] is a text that is not JSON
\* (an HTML error page, an empty body).

TNull == [t |-> "null"]
TStr(s) == [t |-> "str", s |-> s]
TNum(mant, exp) == [t |-> "num", mant |-> mant, exp |-> exp]
TObj(ws, mem) == [t |-> "obj", ws |-> ws, mem |-> mem]
TBad(raw) == [t |-> "bad", raw |-> raw]

RECURSIVE Pow10(_)
Pow10(e) == IF e = 0 THEN 1 ELSE 10 * Pow10(e - 1)

\* Defining a property: a repeated key keeps its first position and takes
\* the last value.
PutMember(mem, key, val) ==
    Let(mem, LAMBDA m :
        IF HasKey(m, key)
        THEN [m EXCEPT ![KeyIndex(m, key)] = <<key, val>>]
        ELSE Append(m, <<key, val>>))

RECURSIVE ParseValue(_)
RECURSIVE ParseMembers(_, _)
ParseMembers(tmem, acc) ==
    IF tmem = <<>> THEN acc
    ELSE ParseMembers(Tail(tmem),
                      PutMember(acc, Head(tmem)[1], ParseValue(Head(tmem)[2])))

ParseValue(text) ==
    CASE text.t = "null" -> JSNull
      [] text.t = "str" -> Str(text.s)
      [] text.t = "num" -> Num(text.mant * Pow10(text.exp))
      [] text.t = "obj" -> Obj(ParseMembers(text.mem, <<>>))

\* JSON.parse, as response.json() applies it to the body text.
JSONparse(text) ==
    IF text.t = "bad" THEN Throw("Unexpected token in JSON") ELSE Ok(ParseValue(text))

RECURSIVE JSONstringify(_)
RECURSIVE StringifyMembers(_)
\* A property whose value is undefined is left out.
StringifyMembers(mem) ==
    IF mem = <<>> THEN <<>>
    ELSE IF Head(mem)[2].t = "undefined"
         THEN StringifyMembers(Tail(mem))
         ELSE <<(<<Head(mem)[1], JSONstringify(Head(mem)[2])>>)>>
              \o StringifyMembers(Tail(mem))

JSONstringify(v) ==
    CASE v.t = "null" -> TNull
      [] v.t = "str" -> TStr(v.s)
      [] v.t = "num" -> TNum(v.n, 0)
      [] v.t = "obj" -> TObj(FALSE, StringifyMembers(v.mem))

\* ------------------------------------------------------- Response objects

\* CORS headers for all responses
CORS_HEADERS ==
    ("Access-Control-Allow-Origin" :> "*")
    @@ ("Access-Control-Allow-Methods" :> "GET, POST, OPTIONS")
    @@ ("Access-Control-Allow-Headers" :> "Content-Type, Authorization")
    @@ ("Access-Control-Max-Age" :> "86400")

\* CoinMarketCap API base URL
CMC_API_BASE == "https://pro-api.coinmarketcap.com/v1"

\* A response without a body (new Response(null, ...)).
NoBody == [t |-> "nobody"]

\* Statuses the Response constructor refuses a body for.
NullBodyStatus == {101, 204, 205, 304}

\* new Response(body, {status, headers}): throws on a status outside
\* 200..599 and on a body given with a null-body status.
NewResponse(body, status, headers) ==
    Let(body, LAMBDA b :
        IF status < 200 \/ status > 599
        THEN Throw("Responses may only be constructed with status codes in the range 200 to 599")
        ELSE IF b # NoBody /\ status \in NullBodyStatus
             THEN Throw("Response with null body status cannot have body")
             ELSE Ok([status |-> status, headers |-> headers, body |-> b]))

\* {'Content-Type': 'application/json', ...CORS_HEADERS}: on a repeated
\* name the spread (later) value wins.
JsonHeaders == CORS_HEADERS @@ ("Content-Type" :> "application/json")

\* Mutant of jsonResponse: the CORS headers are not merged in.
jsonResponseNoCors(data, status) ==
    NewResponse(JSONstringify(data), status, "Content-Type" :> "application/json")

\* Create JSON response with CORS headers
jsonResponse(data, status) == NewResponse(JSONstringify(data), status, JsonHeaders)

\* ------------------------------------------------------- upstream requests

\* encodeURIComponent on the chunks of a string: "," and " " are escaped,
\* the unreserved chunks are kept.
EncodeChunk(c) ==
    CASE c = "," -> "%2C"
      [] c = " " -> "%20"
      [] OTHER -> c

encodeURIComponent(q) == [i \in 1..Len(q.cs) |-> EncodeChunk(q.cs[i])]

\* The application/x-www-form-urlencoded serializer URLSearchParams uses:
\* "," is escaped and " " becomes "+".
FormEncodeChunk(c) ==
    CASE c = "," -> "%2C"
      [] c = " " -> "+"
      [] OTHER -> c

FormEncode(q) == [i \in 1..Len(q.cs) |-> FormEncodeChunk(q.cs[i])]

\* The headers every upstream call carries.
CallHeaders(apiKey) ==
    ("X-CMC_PRO_API_KEY" :> apiKey.s) @@ ("Accept" :> "application/json")

\* fetch(`${CMC_API_BASE}${resource}?${query}`, {headers}): the call handed
\* to the network; the handler is suspended until it settles.
Await(resource, query, apiKey) ==
    [k |-> "await",
     call |-> [base |-> CMC_API_BASE, resource |-> resource, query |-> query,
               headers |-> CallHeaders(apiKey)]]

\* response.ok
IsOk(status) == status >= 200 /\ status <= 299

\* ----------------------------------------------------------------- handlers
\* A handler that awaits is given in two parts: the part that runs when the
\* request arrives, ending in a response, an exception or the upstream call
\* (Await), and the part that runs once response.json() has produced data.

\* params.get(name): the value, or null when the parameter is not given.
Get(params, name) == params[name]

\* Health check endpoint
handleHealth(now) ==
    jsonResponse(Obj(<< <<"status", Str("ok")>>, <<"timestamp", Str(now)>> >>), 200)

\* Mutant of handleQuotesLatest: the missing-parameter envelope reports the
\* key the worker is configured with.
handleQuotesLatestEchoKey(params, e) ==
    LET apiKey == e.CMC_API_KEY
        symbol == Get(params, "symbol")
        id == Get(params, "id")
        q1 == IF Truthy(symbol)
              THEN << <<"symbol", encodeURIComponent(symbol)>> >> ELSE <<>>
        queryString == IF Truthy(id)
                       THEN << <<"id", encodeURIComponent(id)>> >> ELSE q1
    IN  IF ~Truthy(apiKey)
        THEN jsonResponse(Obj(<< <<"error", Str("API key not configured")>>,
                                 <<"hint", Str("Set CMC_API_KEY in Cloudflare environment variables")>> >>),
                          500)
        ELSE IF ~Truthy(symbol) /\ ~Truthy(id)
             THEN jsonResponse(Obj(<< <<"error", Str("Missing required parameter: symbol or id")>>,
                                      <<"key", apiKey>> >>),
                               400)
             ELSE Await("/cryptocurrency/quotes/latest", queryString, apiKey)

\* Mutant of handleQuotesLatest: the two assignments of queryString are
\* swapped, so symbol takes precedence over id.
handleQuotesLatestSymbolFirst(params, e) ==
    LET apiKey == e.CMC_API_KEY
        symbol == Get(params, "symbol")
        id == Get(params, "id")
        q1 == IF Truthy(id)
              THEN << <<"id", encodeURIComponent(id)>> >> ELSE <<>>
        queryString == IF Truthy(symbol)
                       THEN << <<"symbol", encodeURIComponent(symbol)>> >> ELSE q1
    IN  IF ~Truthy(apiKey)
        THEN jsonResponse(Obj(<< <<"error", Str("API key not configured")>>,
                                 <<"hint", Str("Set CMC_API_KEY in Cloudflare environment variables")>> >>),
                          500)
        ELSE IF ~Truthy(symbol) /\ ~Truthy(id)
             THEN jsonResponse(Obj(<< <<"error", Str("Missing required parameter: symbol or id")>> >>),
                               400)
             ELSE Await("/cryptocurrency/quotes/latest", queryString, apiKey)

\* Handle /cryptocurrency/quotes/latest: up to the upstream call.
handleQuotesLatest(params, e) ==
    LET apiKey == e.CMC_API_KEY
        symbol == Get(params, "symbol")
        id == Get(params, "id")
        q1 == IF Truthy(symbol)
              THEN << <<"symbol", encodeURIComponent(symbol)>> >> ELSE <<>>
        queryString == IF Truthy(id)
                       THEN << <<"id", encodeURIComponent(id)>> >> ELSE q1
    IN  IF ~Truthy(apiKey)
        THEN jsonResponse(Obj(<< <<"error", Str("API key not configured")>>,
                                 <<"hint", Str("Set CMC_API_KEY in Cloudflare environment variables")>> >>),
                          500)
        ELSE IF ~Truthy(symbol) /\ ~Truthy(id)
             THEN jsonResponse(Obj(<< <<"error", Str("Missing required parameter: symbol or id")>> >>),
                               400)
             ELSE Await("/cryptocurrency/quotes/latest", queryString, apiKey)

\* Mutant of handleQuotesLatestData: a success keeps the upstream status.
handleQuotesLatestDataKeepStatus(data, status) ==
    IF ~IsOk(status)
    THEN LET st == GetProp(data, "status")
         IN  IF st.k = "throw" THEN st
             ELSE jsonResponse(
                    Obj(<< <<"error", Str("CoinMarketCap API error")>>,
                           <<"status", Num(status)>>,
                           <<"message", OrElse(OptChain(st.v, "error_message"),
                                               Str("Unknown error"))>> >>),
                    status)
    ELSE jsonResponse(data, status)

\* Handle /cryptocurrency/quotes/latest: from the parsed upstream body on.
handleQuotesLatestData(data, status) ==
    IF ~IsOk(status)
    THEN LET st == GetProp(data, "status")
         IN  IF st.k = "throw" THEN st
             ELSE jsonResponse(
                    Obj(<< <<"error", Str("CoinMarketCap API error")>>,
                           <<"status", Num(status)>>,
                           <<"message", OrElse(OptChain(st.v, "error_message"),
                                               Str("Unknown error"))>> >>),
                    status)
    ELSE jsonResponse(data, 200)

\* Mutant of handleQuotesHistorical: the missing-id envelope is returned
\* without its status argument (jsonResponse then defaults to 200).
handleQuotesHistoricalNoStatus(params, e) ==
    LET apiKey == e.CMC_API_KEY
        id == Get(params, "id")
        timeStart == Get(params, "time_start")
        timeEnd == Get(params, "time_end")
        interval == OrElse(Get(params, "interval"), QStr(<<"daily">>))
        queryParams ==
            << <<"id", FormEncode(id)>>, <<"interval", FormEncode(interval)>> >>
            \o (IF Truthy(timeStart)
                THEN << <<"time_start", FormEncode(timeStart)>> >> ELSE <<>>)
            \o (IF Truthy(timeEnd)
                THEN << <<"time_end", FormEncode(timeEnd)>> >> ELSE <<>>)
    IN  IF ~Truthy(apiKey)
        THEN jsonResponse(Obj(<< <<"error", Str("API key not configured")>> >>), 500)
        ELSE IF ~Truthy(id)
             THEN jsonResponse(Obj(<< <<"error", Str("Missing required parameter: id")>> >>),
                               200)
             ELSE Await("/cryptocurrency/quotes/historical", queryParams, apiKey)

\* Handle /cryptocurrency/quotes/historical: up to the upstream call.
handleQuotesHistorical(params, e) ==
    LET apiKey == e.CMC_API_KEY
        id == Get(params, "id")
        timeStart == Get(params, "time_start")
        timeEnd == Get(params, "time_end")
        interval == OrElse(Get(params, "interval"), QStr(<<"daily">>))
        queryParams ==
            << <<"id", FormEncode(id)>>, <<"interval", FormEncode(interval)>> >>
            \o (IF Truthy(timeStart)
                THEN << <<"time_start", FormEncode(timeStart)>> >> ELSE <<>>)
            \o (IF Truthy(timeEnd)
                THEN << <<"time_end", FormEncode(timeEnd)>> >> ELSE <<>>)
    IN  IF ~Truthy(apiKey)
        THEN jsonResponse(Obj(<< <<"error", Str("API key not configured")>> >>), 500)
        ELSE IF ~Truthy(id)
             THEN jsonResponse(Obj(<< <<"error", Str("Missing required parameter: id")>> >>),
                               400)
             ELSE Await("/cryptocurrency/quotes/historical", queryParams, apiKey)

\* Handle /cryptocurrency/quotes/historical: from the parsed upstream body on.
handleQuotesHistoricalData(data, status) ==
    IF ~IsOk(status)
    THEN LET st == GetProp(data, "status")
         IN  IF st.k = "throw" THEN st
             ELSE jsonResponse(
                    Obj(<< <<"error", Str("CoinMarketCap API error")>>,
                           <<"status", Num(status)>>,
                           <<"message", OrElse(OptChain(st.v, "error_message"),
                                               Str("Unknown error"))>> >>),
                    status)
    ELSE jsonResponse(data, 200)

\* Mutant of handleMap: the parameter is checked before the credential.
handleMapParamFirst(params, e) ==
    LET apiKey == e.CMC_API_KEY
        symbol == Get(params, "symbol")
    IN  IF ~Truthy(symbol)
        THEN jsonResponse(Obj(<< <<"error", Str("Missing required parameter: symbol")>> >>),
                          400)
        ELSE IF ~Truthy(apiKey)
             THEN jsonResponse(Obj(<< <<"error", Str("API key not configured")>> >>), 500)
             ELSE Await("/cryptocurrency/map",
                        << <<"symbol", encodeURIComponent(symbol)>> >>, apiKey)

\* Handle /cryptocurrency/map: up to the upstream call.
handleMap(params, e) ==
    LET apiKey == e.CMC_API_KEY
        symbol == Get(params, "symbol")
    IN  IF ~Truthy(apiKey)
        THEN jsonResponse(Obj(<< <<"error", Str("API key not configured")>> >>), 500)
        ELSE IF ~Truthy(symbol)
             THEN jsonResponse(Obj(<< <<"error", Str("Missing required parameter: symbol")>> >>),
                               400)
             ELSE Await("/cryptocurrency/map",
                        << <<"symbol", encodeURIComponent(symbol)>> >>, apiKey)

\* Handle /cryptocurrency/map: from the parsed upstream body on.
handleMapData(data, status) ==
    IF ~IsOk(status)
    THEN LET st == GetProp(data, "status")
         IN  IF st.k = "throw" THEN st
             ELSE jsonResponse(
                    Obj(<< <<"error", Str("CoinMarketCap API error")>>,
                           <<"status", Num(status)>>,
                           <<"message", OrElse(OptChain(st.v, "error_message"),
                                               Str("Unknown error"))>> >>),
                    status)
    ELSE jsonResponse(data, 200)

\* ------------------------------------------------------------------- router

\* Handle CORS preflight (before the try block).
Preflight == NewResponse(NoBody, 204, CORS_HEADERS)

\* Mutant of Route: a trailing slash is accepted on the symbol-map route.
RouteTrailingSlash(path, params, e, now) ==
    IF path = "/health" THEN handleHealth(now)
    ELSE IF path = "/api/quotes/latest" THEN handleQuotesLatest(params, e)
    ELSE IF path = "/api/quotes/historical" THEN handleQuotesHistorical(params, e)
    ELSE IF path \in {"/api/map", "/api/map/"} THEN handleMap(params, e)
    ELSE jsonResponse(Obj(<< <<"error", Str("Not found")>> >>), 404)

\* Route to appropriate handler: the first exact match of the path.
Route(path, params, e, now) ==
    IF path = "/health" THEN handleHealth(now)
    ELSE IF path = "/api/quotes/latest" THEN handleQuotesLatest(params, e)
    ELSE IF path = "/api/quotes/historical" THEN handleQuotesHistorical(params, e)
    ELSE IF path = "/api/map" THEN handleMap(params, e)
    ELSE jsonResponse(Obj(<< <<"error", Str("Not found")>> >>), 404)

\* The handler that resumes after the upstream call, by the same routing.
RouteData(path, data, status) ==
    IF path = "/api/quotes/latest" THEN handleQuotesLatestData(data, status)
    ELSE IF path = "/api/quotes/historical" THEN handleQuotesHistoricalData(data, status)
    ELSE handleMapData(data, status)

\* Mutant of CatchAll: the error is thrown on.
CatchAllRethrow(result) == result

\* catch (error): the catch-all of the try block.
CatchAll(result) ==
    Let(result, LAMBDA res :
        IF res.k = "throw"
        THEN jsonResponse(Obj(<< <<"error", Str("Internal server error")>>,
                                 <<"message", Str(res.message)>> >>), 500)
        ELSE res)

\* fetch(request, env, ctx), up to its first await.
FetchStart(request, e) ==
    IF request.method = "OPTIONS" THEN Preflight
    ELSE CatchAll(Route(request.path, request.params, e, request.now))

\* fetch, resumed with the parsed upstream body.
FetchData(request, data, status) == CatchAll(RouteData(request.path, data, status))

\* fetch, resumed with a rejected await (fetch or response.json() threw).
FetchRejected(message) == CatchAll(Throw(message))

\* ------------------------------------------------------------------ inputs

\* Two request slots: slot 1 carries the requests of Spec; slot 2 carries
\* the twin request of SpecTwin.
Slots == {1, 2}

Methods == {"OPTIONS", "GET", "POST"}

\* The four routes, a route with a trailing slash and an unknown path.
Paths ==
    {"/health", "/api/quotes/latest", "/api/quotes/historical", "/api/map",
     "/api/map/", "/unknown"}

\* URLSearchParams of the inbound URL: each parameter absent (null), empty
\* or given.
Params ==
    [symbol : {JSNull, QStr(<<>>), QStr(<<"BTC", ",", "ETH">>)},
     id : {JSNull, QStr(<<>>), QStr(<<"1", ",", "1027">>)},
     time_start : {JSNull, QStr(<<"1609459200">>)},
     time_end : {JSNull, QStr(<<"1640995200">>)},
     interval : {JSNull, QStr(<<"hourly">>)}]

\* new Date().toISOString() at the time the request is handled.
Clock == {"2024-01-01T00:00:00.000Z", "2024-01-01T00:00:01.000Z"}

\* A request, with the instant it is handled at.  The health handler alone
\* reads the clock, so the instant varies for /health only.
Requests ==
    {q \in [method : Methods, path : Paths, params : Params, now : Clock] :
        q.path = "/health" \/ q.now = "2024-01-01T00:00:00.000Z"}

\* env.CMC_API_KEY: not set, set to the empty string, or one of two keys.
Envs ==
    {[CMC_API_KEY |-> k] : k \in {JSUndefined, Str(""), Str("key-A"), Str("key-B")}}

\* Statuses the upstream API answers with.
UpstreamStatuses == {200, 201, 204, 429, 500}

BodyTooMany ==
    TObj(FALSE, << <<"status",
                     TObj(FALSE, << <<"error_message", TStr("Too many requests")>> >>)>> >>)
\* A pretty-printed answer, error_message null, a number spelled 1e2.
BodyQuotes ==
    TObj(TRUE, << <<"status", TObj(TRUE, << <<"error_message", TNull>> >>)>>,
                  <<"data", TObj(TRUE, << <<"price", TNum(1, 2)>> >>)>> >>)
BodyCompact == TObj(FALSE, << <<"data", TObj(FALSE, << <<"id", TNum(1, 0)>> >>)>> >>)
BodyEmptyMessage ==
    TObj(FALSE, << <<"status", TObj(FALSE, << <<"error_message", TStr("")>> >>)>> >>)
BodyNoMessage ==
    TObj(FALSE, << <<"status", TObj(FALSE, << <<"error_code", TNum(1008, 0)>> >>)>> >>)
BodyStatusString == TObj(FALSE, << <<"status", TStr("down")>> >>)
BodyRepeatedKey == TObj(FALSE, << <<"a", TNum(1, 0)>>, <<"a", TNum(2, 0)>> >>)
BodyHtml == TBad("<html>")
BodyEmpty == TBad("")

\* Body texts the upstream API answers with.
UpstreamBodies ==
    {BodyTooMany, BodyQuotes, BodyCompact, BodyEmptyMessage, BodyNoMessage,
     BodyStatusString, BodyRepeatedKey, TNull, BodyHtml, BodyEmpty}

\* Transport failures of the upstream call.
NetworkErrors == {"Network connection lost"}

\* ------------------------------------------------------------------- state

NoRequest == [none |-> TRUE]
NoCall == [state |-> "none", status |-> 0, body |-> NoBody, error |-> ""]

Init ==
    /\ pc = [r \in Slots |-> "idle"]
    /\ req = [r \in Slots |-> NoRequest]
    /\ env = [r \in Slots |-> NoRequest]
    /\ upstream = [r \in Slots |-> NoCall]
    /\ calls = [r \in Slots |-> <<>>]
    /\ resp = [r \in Slots |-> <<>>]
    /\ received = 0

\* What a run of the handler ends in: a returned response, an exception
\* leaving fetch, or the handler suspended on the upstream call.
Outcome(r, res) ==
    CASE res.k = "ok" ->
            /\ pc' = [pc EXCEPT ![r] = "done"]
            /\ resp' = [resp EXCEPT ![r] = Append(@, res.v)]
            /\ UNCHANGED <<upstream, calls>>
      [] res.k = "throw" ->
            /\ pc' = [pc EXCEPT ![r] = "rejected"]
            /\ UNCHANGED <<resp, upstream, calls>>
      [] res.k = "await" ->
            /\ pc' = [pc EXCEPT ![r] = "awaitFetch"]
            /\ calls' = [calls EXCEPT ![r] = Append(@, res.call)]
            /\ upstream' = [upstream EXCEPT ![r] = [NoCall EXCEPT !.state = "pending"]]
            /\ UNCHANGED resp

\* A request arrives and fetch runs to its first await or to its return.
Accept(r, request, e) ==
    /\ pc[r] = "idle"
    /\ received < MaxRequests
    /\ received' = received + 1
    /\ req' = [req EXCEPT ![r] = request]
    /\ env' = [env EXCEPT ![r] = e]
    /\ \E res \in {FetchStart(request, e)} : Outcome(r, res)

\* The upstream answers: status line and headers arrive.
AnswerHead(r, status) ==
    /\ upstream[r].state = "pending"
    /\ upstream' = [upstream EXCEPT ![r].state = "head", ![r].status = status]
    /\ UNCHANGED <<pc, req, env, calls, resp, received>>

\* The upstream body arrives in full; a null-body status has an empty body.
AnswerBody(r, body) ==
    /\ upstream[r].state = "head"
    /\ upstream[r].status \in NullBodyStatus => body = BodyEmpty
    /\ upstream' = [upstream EXCEPT ![r].state = "complete", ![r].body = body]
    /\ UNCHANGED <<pc, req, env, calls, resp, received>>

\* The upstream call fails in transport, before or after the head.
AnswerAbort(r, message) ==
    /\ upstream[r].state \in {"pending", "head"}
    /\ upstream' = [upstream EXCEPT ![r].state = "failed", ![r].error = message]
    /\ UNCHANGED <<pc, req, env, calls, resp, received>>

\* Mutant of ResumeFetch: response.json() is not awaited, so the handler
\* answers from the pending promise (serialized as {}) once the head is in.
ResumeFetchNoAwait(r) ==
    /\ pc[r] = "awaitFetch"
    /\ upstream[r].state # "pending"
    /\ IF upstream[r].status = 0
       THEN Outcome(r, FetchRejected(upstream[r].error))
       ELSE Outcome(r, FetchData(req[r], Obj(<<>>), upstream[r].status))
    /\ UNCHANGED <<req, env, received>>

\* await fetch(...) settles: the handler goes on to response.json(), or the
\* rejection is thrown into the try block.
ResumeFetch(r) ==
    /\ pc[r] = "awaitFetch"
    /\ upstream[r].state # "pending"
    /\ IF upstream[r].status = 0
       THEN Outcome(r, FetchRejected(upstream[r].error))
       ELSE /\ pc' = [pc EXCEPT ![r] = "awaitJson"]
            /\ UNCHANGED <<upstream, calls, resp>>
    /\ UNCHANGED <<req, env, received>>

\* Mutant of ResumeJson: the upstream response is kept in a module-level
\* variable, so a handler resumes with the answer that completed last for
\* any request in flight.
ResumeJsonSharedData(r) ==
    /\ pc[r] = "awaitJson"
    /\ upstream[r].state \in {"complete", "failed"}
    /\ IF upstream[r].state = "failed"
       THEN Outcome(r, FetchRejected(upstream[r].error))
       ELSE \E src \in {IF upstream[3 - r].state = "complete" THEN 3 - r ELSE r} :
            \E parsed \in {JSONparse(upstream[src].body)} :
            \E res \in {IF parsed.k = "throw"
                        THEN FetchRejected(parsed.message)
                        ELSE FetchData(req[r], parsed.v, upstream[src].status)} :
                Outcome(r, res)
    /\ UNCHANGED <<req, env, received>>

\* await response.json() settles and the handler runs to its return.
ResumeJson(r) ==
    /\ pc[r] = "awaitJson"
    /\ upstream[r].state \in {"complete", "failed"}
    /\ IF upstream[r].state = "failed"
       THEN Outcome(r, FetchRejected(upstream[r].error))
       ELSE \E parsed \in {JSONparse(upstream[r].body)} :
            \E res \in {IF parsed.k = "throw"
                        THEN FetchRejected(parsed.message)
                        ELSE FetchData(req[r], parsed.v, upstream[r].status)} :
                Outcome(r, res)
    /\ UNCHANGED <<req, env, received>>

\* The request is over; its slot takes the next request.
Recycle(r) ==
    /\ pc[r] \in {"done", "rejected"}
    /\ pc' = [pc EXCEPT ![r] = "idle"]
    /\ req' = [req EXCEPT ![r] = NoRequest]
    /\ env' = [env EXCEPT ![r] = NoRequest]
    /\ upstream' = [upstream EXCEPT ![r] = NoCall]
    /\ calls' = [calls EXCEPT ![r] = <<>>]
    /\ resp' = [resp EXCEPT ![r] = <<>>]
    /\ UNCHANGED received

\* A request arrives in slot r.
Receive(r) ==
    /\ pc[r] = "idle"
    /\ received < MaxRequests
    /\ \E request \in Requests, e \in Envs : Accept(r, request, e)

\* The upstream answers the call of slot r.
UpstreamHead(r) ==
    /\ upstream[r].state = "pending"
    /\ \E status \in UpstreamStatuses : AnswerHead(r, status)

\* The body of the upstream answer arrives.
UpstreamBody(r) ==
    /\ upstream[r].state = "head"
    /\ \E body \in UpstreamBodies : AnswerBody(r, body)

\* The upstream call of slot r fails in transport.
UpstreamAbort(r) ==
    /\ upstream[r].state \in {"pending", "head"}
    /\ \E message \in NetworkErrors : AnswerAbort(r, message)

Next ==
    \/ Receive(1)
    \/ UpstreamHead(1)
    \/ UpstreamBody(1)
    \/ UpstreamAbort(1)
    \/ ResumeFetch(1)
    \/ ResumeJson(1)
    \/ Recycle(1)

Spec == Init /\ [][Next]_vars

\* The handler is resumed once the promise it awaits has settled (the
\* runtime runs the continuation of a settled await).
LiveSpec == Spec /\ WF_vars(ResumeFetch(1)) /\ WF_vars(ResumeJson(1))

\* ------------------------------------------------------------ twin requests
\* Two requests that differ in the credential alone: slot 2 takes the
\* request of slot 1 with an env of its own, and its upstream call is
\* answered as the call of slot 1 is.

ReceiveTwin ==
    /\ pc[2] = "idle"
    /\ pc[1] # "idle"
    /\ received < MaxRequests
    /\ \E e \in Envs : Accept(2, req[1], e)

UpstreamHeadTwin ==
    /\ upstream[2].state = "pending"
    /\ upstream[1].status # 0
    /\ AnswerHead(2, upstream[1].status)

UpstreamBodyTwin ==
    /\ upstream[2].state = "head"
    /\ upstream[1].state = "complete"
    /\ AnswerBody(2, upstream[1].body)

UpstreamAbortTwin ==
    /\ upstream[2].state \in {"pending", "head"}
    /\ upstream[1].state = "failed"
    /\ upstream[2].status = upstream[1].status
    /\ AnswerAbort(2, upstream[1].error)

NextTwin ==
    \/ Receive(1)
    \/ UpstreamHead(1)
    \/ UpstreamBody(1)
    \/ UpstreamAbort(1)
    \/ ResumeFetch(1)
    \/ ResumeJson(1)
    \/ ReceiveTwin
    \/ UpstreamHeadTwin
    \/ UpstreamBodyTwin
    \/ UpstreamAbortTwin
    \/ ResumeFetch(2)
    \/ ResumeJson(2)

SpecTwin == Init /\ [][NextTwin]_vars

\* ------------------------------------------------------ concurrent requests
\* The runtime calls fetch for a request while the handlers of other
\* requests are suspended on their awaits: the two slots take requests
\* independently, and their handler steps and upstream completions
\* interleave freely.

NoParams ==
    [symbol |-> JSNull, id |-> JSNull, time_start |-> JSNull,
     time_end |-> JSNull, interval |-> JSNull]

\* Requests in flight together: preflights and GETs to each route and to an
\* unknown path, with no parameter, a symbol or an id.
ConcurrentRequests ==
    {q \in Requests :
        /\ q.method \in {"OPTIONS", "GET"}
        /\ q.path # "/api/map/"
        /\ q.params \in {NoParams,
                         [NoParams EXCEPT !.symbol = QStr(<<"BTC", ",", "ETH">>)],
                         [NoParams EXCEPT !.id = QStr(<<"1", ",", "1027">>)]}}

\* Upstream answers of concurrent calls: a success, a failure, and bodies
\* that parse, make the handler throw, or do not parse.
ConcurrentStatuses == {200, 429}
ConcurrentBodies == {BodyQuotes, BodyTooMany, TNull, BodyHtml}

ReceiveConcurrent(r) ==
    /\ pc[r] = "idle"
    /\ received < MaxRequests
    /\ \E request \in ConcurrentRequests, e \in Envs : Accept(r, request, e)

UpstreamHeadConcurrent(r) ==
    /\ upstream[r].state = "pending"
    /\ \E status \in ConcurrentStatuses : AnswerHead(r, status)

UpstreamBodyConcurrent(r) ==
    /\ upstream[r].state = "head"
    /\ \E body \in ConcurrentBodies : AnswerBody(r, body)

NextConcurrent ==
    \/ ReceiveConcurrent(1)
    \/ UpstreamHeadConcurrent(1)
    \/ UpstreamBodyConcurrent(1)
    \/ UpstreamAbort(1)
    \/ ResumeFetch(1)
    \/ ResumeJson(1)
    \/ Recycle(1)
    \/ ReceiveConcurrent(2)
    \/ UpstreamHeadConcurrent(2)
    \/ UpstreamBodyConcurrent(2)
    \/ UpstreamAbort(2)
    \/ ResumeFetch(2)
    \/ ResumeJson(2)
    \/ Recycle(2)

SpecConcurrent == Init /\ [][NextConcurrent]_vars

\* ------------------------------------------------- upstream request building
\* The translators run up to their upstream call on every combination of
\* parameters: each absent, given empty ("?id=") or given with a value; id
\* also as a list with a space in it.

BuildParams ==
    [symbol : {JSNull, QStr(<<>>), QStr(<<"BTC", ",", "ETH">>)},
     id : {JSNull, QStr(<<>>), QStr(<<"1", ",", "1027">>),
           QStr(<<"1", ",", " ", "1027">>)},
     time_start : {JSNull, QStr(<<>>), QStr(<<"1609459200">>)},
     time_end : {JSNull, QStr(<<>>), QStr(<<"1640995200">>)},
     interval : {JSNull, QStr(<<>>), QStr(<<"hourly">>)}]

BuildRequests ==
    [method : {"GET"},
     path : {"/api/quotes/latest", "/api/quotes/historical", "/api/map"},
     params : BuildParams, now : {"2024-01-01T00:00:00.000Z"}]

ReceiveBuild(r) ==
    /\ pc[r] = "idle"
    /\ received < MaxRequests
    /\ \E request \in BuildRequests, e \in Envs : Accept(r, request, e)

NextBuild == ReceiveBuild(1)

SpecBuild == Init /\ [][NextBuild]_vars

\* ---------------------------------------------------------------- properties

\* The requests that are being handled or have been answered.
Live == {r \in Slots : pc[r] # "idle"}

\* The three data endpoints.
DataPaths == {"/api/quotes/latest", "/api/quotes/historical", "/api/map"}

\* Request r went to a data endpoint and was not a preflight.
DataRequest(r) == req[r].method # "OPTIONS" /\ req[r].path \in DataPaths

\* Request r has been answered: the one response it got.
Answered(r) == pc[r] = "done" /\ Len(resp[r]) = 1
Response(r) == resp[r][1]

\* The error envelope {"error": message} as serialized JSON.
ErrorBody(message) == TObj(FALSE, << <<"error", TStr(message)>> >>)

\* The error field of a response body, read as a caller reads it; undefined
\* when the body has none.
ErrorOf(R) ==
    IF R.body.t = "obj" THEN OptChain(ParseValue(R.body), "error") ELSE JSUndefined

\* C1: every response the fetch handler returns, on every path, carries the
\* fixed CORS header set with exactly these values (the only other header
\* is Content-Type), and no run of the handler ends without a response.
C1_CorsOnEveryResponse ==
    \A r \in Slots :
        /\ pc[r] # "rejected"
        /\ \A i \in 1..Len(resp[r]) :
            LET h == resp[r][i].headers
            IN  /\ DOMAIN h \ {"Content-Type"} =
                     {"Access-Control-Allow-Origin", "Access-Control-Allow-Methods",
                      "Access-Control-Allow-Headers", "Access-Control-Max-Age"}
                /\ h["Access-Control-Allow-Origin"] = "*"
                /\ h["Access-Control-Allow-Methods"] = "GET, POST, OPTIONS"
                /\ h["Access-Control-Allow-Headers"] = "Content-Type, Authorization"
                /\ h["Access-Control-Max-Age"] = "86400"

\* C1 witness: an upstream 429 has been forwarded (with the CORS headers).
C1_Witness ==
    /\ Answered(1)
    /\ Response(1).status = 429
    /\ "Access-Control-Allow-Origin" \in DOMAIN Response(1).headers

\* C2: with env.CMC_API_KEY unset, every non-preflight request to a data
\* endpoint, whatever its parameters, is answered 500 with error "API key
\* not configured", and no upstream call is made for it.
C2_NoKeyIs500 ==
    \A r \in Live :
        (DataRequest(r) /\ env[r].CMC_API_KEY = JSUndefined) =>
            /\ Answered(r)
            /\ Response(r).status = 500
            /\ ErrorOf(Response(r)) = Str("API key not configured")
            /\ calls[r] = <<>>
            /\ upstream[r] = NoCall

\* C2 witness: /api/map with its symbol given and no key is refused.
C2_Witness ==
    /\ Answered(1)
    /\ req[1].path = "/api/map"
    /\ req[1].method = "GET"
    /\ Truthy(req[1].params.symbol)
    /\ env[1].CMC_API_KEY = JSUndefined
    /\ Response(1).status = 500

\* The message a data endpoint answers a missing required parameter with.
MissingMessage(path) ==
    CASE path = "/api/quotes/latest" -> "Missing required parameter: symbol or id"
      [] path = "/api/quotes/historical" -> "Missing required parameter: id"
      [] path = "/api/map" -> "Missing required parameter: symbol"

\* Request r lacks the required parameter of its endpoint.
LacksRequired(r) ==
    CASE req[r].path = "/api/quotes/latest" ->
            req[r].params.symbol = JSNull /\ req[r].params.id = JSNull
      [] req[r].path = "/api/quotes/historical" -> req[r].params.id = JSNull
      [] req[r].path = "/api/map" -> req[r].params.symbol = JSNull

\* Request r is answered 400 with its endpoint's message, without a call.
Refused400(r) ==
    /\ Answered(r)
    /\ Response(r).status = 400
    /\ Response(r).body = ErrorBody(MissingMessage(req[r].path))
    /\ calls[r] = <<>>

\* C3 as stated: every non-preflight request to a data endpoint that lacks
\* the required parameter is answered 400 with the endpoint's message and
\* never reaches upstream.
C3_Original ==
    \A r \in Live : (DataRequest(r) /\ LacksRequired(r)) => Refused400(r)

\* C3 amended: the same, for requests handled with a credential configured
\* (without one the credential check answers first, with 500).
C3_MissingParamIs400 ==
    \A r \in Live :
        (DataRequest(r) /\ LacksRequired(r) /\ Truthy(env[r].CMC_API_KEY)) =>
            Refused400(r)

\* C3 witness: /api/quotes/historical without id, key configured, got 400.
C3_Witness ==
    /\ Answered(1)
    /\ req[1].path = "/api/quotes/historical"
    /\ req[1].params.id = JSNull
    /\ Truthy(env[1].CMC_API_KEY)
    /\ Response(1).status = 400

\* Request r gives the required parameter of its endpoint (non-empty).
RequiredGiven(r) ==
    CASE req[r].path = "/api/quotes/latest" ->
            Truthy(req[r].params.symbol) \/ Truthy(req[r].params.id)
      [] req[r].path = "/api/quotes/historical" -> Truthy(req[r].params.id)
      [] req[r].path = "/api/map" -> Truthy(req[r].params.symbol)

\* Request r passes the credential check and the parameter check.
PassesChecks(r) ==
    DataRequest(r) /\ Truthy(env[r].CMC_API_KEY) /\ RequiredGiven(r)

\* The upstream call of r has answered in full with this kind of status and
\* a body that parses as JSON, and r's handler has finished.
Relayed(r, ok) ==
    /\ pc[r] = "done"
    /\ PassesChecks(r)
    /\ upstream[r].state = "complete"
    /\ (upstream[r].status \in 200..299) = ok
    /\ upstream[r].body.t # "bad"

\* C4 as stated: an upstream 2xx with JSON-parseable body B is answered with
\* status 200 and a body equal to B, unmodified.
C4_Original ==
    \A r \in Live :
        Relayed(r, TRUE) =>
            /\ Answered(r)
            /\ Response(r).status = 200
            /\ Response(r).body = upstream[r].body

\* C4 amended: an upstream 2xx with JSON-parseable body B is answered with
\* status 200 and a body that parses to the same JSON value as B (the text
\* is B parsed and serialized again, not B's own text).
C4_PassThrough ==
    \A r \in Live :
        Relayed(r, TRUE) =>
            /\ Answered(r)
            /\ Response(r).status = 200
            /\ Response(r).body.t # "nobody"
            /\ JSONparse(Response(r).body) = JSONparse(upstream[r].body)

\* C4 witness: an upstream 201 whose pretty-printed body was relayed as 200
\* with another text.
C4_Witness ==
    /\ Relayed(1, TRUE)
    /\ Answered(1)
    /\ upstream[1].status = 201
    /\ upstream[1].body = BodyQuotes
    /\ Response(1).status = 200
    /\ Response(1).body # upstream[1].body

\* The normalized envelope of an upstream failure, as serialized JSON.
UpstreamErrorBody(status, message) ==
    TObj(FALSE, << <<"error", TStr("CoinMarketCap API error")>>,
                   <<"status", TNum(status, 0)>>,
                   <<"message", message>> >>)

\* The status.error_message member of a body text, or <<>> when the body
\* has none.
ErrorMessageOf(body) ==
    IF body.t = "obj" /\ HasKey(body.mem, "status")
    THEN LET st == body.mem[KeyIndex(body.mem, "status")][2]
         IN  IF st.t = "obj" /\ HasKey(st.mem, "error_message")
             THEN <<st.mem[KeyIndex(st.mem, "error_message")][2]>>
             ELSE <<>>
    ELSE <<>>

\* The messages the claim allows for a body: the field when the body has a
\* non-empty one, "Unknown error" when it has none; for a field that is
\* present but null or empty either reading is accepted.
ClaimedMessages(body) ==
    LET m == ErrorMessageOf(body)
    IN  IF m = <<>> THEN {TStr("Unknown error")}
        ELSE IF Truthy(ParseValue(m[1])) THEN {m[1]}
        ELSE {m[1], TStr("Unknown error")}

\* C5 as stated: an upstream non-2xx status S with a JSON body is answered
\* with status S and the envelope {error, status: S, message: M}, M being
\* the body's status.error_message if present and "Unknown error" for every
\* body that lacks it.
C5_Original ==
    \A r \in Live :
        Relayed(r, FALSE) =>
            /\ Answered(r)
            /\ Response(r).status = upstream[r].status
            /\ \E m \in ClaimedMessages(upstream[r].body) :
                Response(r).body = UpstreamErrorBody(upstream[r].status, m)

\* The four routes of the router.
KnownPaths == {"/health"} \cup DataPaths

\* The upstream resource of each data endpoint.
ResourceOf(path) ==
    CASE path = "/api/quotes/latest" -> "/cryptocurrency/quotes/latest"
      [] path = "/api/quotes/historical" -> "/cryptocurrency/quotes/historical"
      [] path = "/api/map" -> "/cryptocurrency/map"

\* The errors a translator answers with on its own, before any call.
LocalErrors(path) == {Str("API key not configured"), Str(MissingMessage(path))}

\* C6: the router's outcome depends on method and path alone.  OPTIONS is
\* answered 204 with no body on any path and runs no handler; any other
\* method is dispatched by exact path equality to the health handler or to
\* the matching translator (seen by the resource it calls or by its own
\* local error); a path that equals none of the four is answered 404
\* {"error":"Not found"}.
C6_Routing ==
    \A r \in Live :
        /\ req[r].method = "OPTIONS" =>
            /\ Answered(r)
            /\ Response(r).status = 204
            /\ Response(r).body = NoBody
            /\ calls[r] = <<>>
        /\ (req[r].method # "OPTIONS" /\ req[r].path \notin KnownPaths) =>
            /\ Answered(r)
            /\ Response(r).status = 404
            /\ Response(r).body = ErrorBody("Not found")
            /\ calls[r] = <<>>
        /\ (req[r].method # "OPTIONS" /\ req[r].path = "/health") =>
            /\ Answered(r)
            /\ Response(r).status = 200
            /\ OptChain(ParseValue(Response(r).body), "status") = Str("ok")
            /\ calls[r] = <<>>
        /\ DataRequest(r) =>
            /\ \A i \in 1..Len(calls[r]) : calls[r][i].resource = ResourceOf(req[r].path)
            /\ calls[r] = <<>> =>
                /\ Answered(r)
                /\ Response(r).status \in {400, 500}
                /\ ErrorOf(Response(r)) \in LocalErrors(req[r].path)

\* C6 witness: a GET of /api/map/ (trailing slash) with a key and a symbol
\* was answered 404, and not by the symbol-map translator.
C6_Witness ==
    /\ Answered(1)
    /\ req[1].method = "GET"
    /\ req[1].path = "/api/map/"
    /\ Truthy(req[1].params.symbol)
    /\ Truthy(env[1].CMC_API_KEY)
    /\ Response(1).status = 404

\* The catch-all's envelope, as serialized JSON.
InternalErrorBody(detail) ==
    TObj(FALSE, << <<"error", TStr("Internal server error")>>,
                   <<"message", TStr(detail)>> >>)

\* The handler of r met a failure it does not handle itself: the call
\* failed in transport, the body is not JSON, or reading the parsed body
\* threw.
UnexpectedFailure(r) ==
    /\ calls[r] # <<>>
    /\ \/ upstream[r].state = "failed"
       \/ upstream[r].state = "complete" /\ upstream[r].body.t = "bad"
       \/ /\ upstream[r].state = "complete"
          /\ upstream[r].body = TNull
          /\ upstream[r].status \notin 200..299

\* C8: an unexpected failure inside a matched handler becomes a response
\* with status 500 and body {error: "Internal server error", message:
\* <failure detail>}, and such a response is produced for no other reason;
\* no failure leaves the fetch handler as an exception; every response
\* other than the preflight's has a JSON body, and every error response
\* has an error field.
C8_CatchAll ==
    \A r \in Slots :
        /\ pc[r] # "rejected"
        /\ pc[r] = "done" =>
            /\ Answered(r)
            /\ Response(r).body = NoBody => req[r].method = "OPTIONS"
            /\ Response(r).status >= 400 => ErrorOf(Response(r)).t = "str"
            /\ UnexpectedFailure(r) =>
                /\ Response(r).status = 500
                /\ ErrorOf(Response(r)) = Str("Internal server error")
            /\ upstream[r].state = "failed" =>
                Response(r).body = InternalErrorBody(upstream[r].error)
            /\ ErrorOf(Response(r)) = Str("Internal server error") =>
                UnexpectedFailure(r)

\* C8 witness: an HTML body from upstream ended as the catch-all's 500.
C8_Witness ==
    /\ Answered(1)
    /\ upstream[1].state = "complete"
    /\ upstream[1].body = BodyHtml
    /\ Response(1).status = 500
    /\ ErrorOf(Response(1)) = Str("Internal server error")

\* The credential-absent envelope of /api/quotes/latest.
KeyMissingBody ==
    TObj(FALSE, << <<"error", TStr("API key not configured")>>,
                   <<"hint", TStr("Set CMC_API_KEY in Cloudflare environment variables")>> >>)

\* C9 as stated: without a credential the three data endpoints answer
\* alike: status 500 and {error: "API key not configured", hint: ...},
\* hint included.
C9_Original ==
    \A r \in Live :
        (DataRequest(r) /\ ~Truthy(env[r].CMC_API_KEY)) =>
            /\ Answered(r)
            /\ Response(r).status = 500
            /\ Response(r).body = KeyMissingBody

\* C7: the credential reaches the upstream request header and nothing the
\* caller sees.  Every upstream call carries the configured key in
\* X-CMC_PRO_API_KEY; and two requests that are alike, handled with two
\* configured keys and given the same upstream outcome (answer, malformed
\* body or transport failure), get the same response: status, headers and
\* body.
C7_CredentialHidden ==
    /\ \A r \in Slots : \A i \in 1..Len(calls[r]) :
            calls[r][i].headers["X-CMC_PRO_API_KEY"] = env[r].CMC_API_KEY.s
    /\ ( /\ pc[1] = "done"
         /\ pc[2] = "done"
         /\ req[1] = req[2]
         /\ Truthy(env[1].CMC_API_KEY)
         /\ Truthy(env[2].CMC_API_KEY)
         /\ upstream[1] = upstream[2] )
       => resp[1] = resp[2]

\* C7 witness: the same request answered under two different keys after
\* the same upstream failure answer.
C7_Witness ==
    /\ Answered(1)
    /\ Answered(2)
    /\ req[1] = req[2]
    /\ Truthy(env[1].CMC_API_KEY)
    /\ Truthy(env[2].CMC_API_KEY)
    /\ env[1] # env[2]
    /\ upstream[1] = upstream[2]
    /\ upstream[1].state = "complete"
    /\ upstream[1].status = 429
    /\ calls[1] # calls[2]

\* The lifecycle of one request, as a state predicate: at most one response
\* and at most one upstream call; a call exactly when the request is a
\* data-endpoint request that passes the credential and parameter checks;
\* a request without a call is answered on arrival; a request with a call
\* is answered only once the call has completed or failed.
LifecycleOk(r) ==
    /\ pc[r] # "rejected"
    /\ Len(resp[r]) <= 1
    /\ Len(calls[r]) <= 1
    /\ (pc[r] = "done") = (Len(resp[r]) = 1)
    /\ pc[r] = "idle" => calls[r] = <<>>
    /\ pc[r] # "idle" =>
        /\ (Len(calls[r]) = 1) = PassesChecks(r)
        /\ calls[r] = <<>> => pc[r] = "done"
        /\ (calls[r] # <<>> /\ pc[r] = "done") =>
                upstream[r].state \in {"complete", "failed"}

\* C10: every request yields exactly one response; it issues at most one
\* upstream call (exactly one when it passes the credential and parameter
\* checks of a data endpoint, none otherwise); with a call, the response is
\* produced only after the call has completed or failed, and is eventually
\* produced once the call has completed or failed.
C10_Lifecycle ==
    /\ [](\A r \in Slots : LifecycleOk(r))
    /\ \A r \in Slots :
        (upstream[r].state \in {"complete", "failed"}) ~> (Len(resp[r]) = 1)

\* C10 witness: a request answered after its one upstream call completed.
C10_Witness ==
    /\ Answered(1)
    /\ Len(calls[1]) = 1
    /\ upstream[1].state = "complete"

\* What the handler of a request does when it is the only request there is:
\* the upstream call it issues and, once it has returned, its response,
\* from the request, the credential and the outcome of its own call.
HandledAlone(request, e, up, returned) ==
    LET start == FetchStart(request, e)
        parsed == JSONparse(up.body)
        end == IF up.state = "failed" THEN FetchRejected(up.error)
               ELSE IF parsed.k = "throw" THEN FetchRejected(parsed.message)
               ELSE FetchData(request, parsed.v, up.status)
    IN  IF start.k = "ok" THEN [calls |-> <<>>, resp |-> <<start.v>>]
        ELSE IF returned THEN [calls |-> <<start.call>>, resp |-> <<end.v>>]
        ELSE [calls |-> <<start.call>>, resp |-> <<>>]

\* Request r has issued and returned what it would have, handled alone.
AsAlone(r) ==
    LET alone == HandledAlone(req[r], env[r], upstream[r], pc[r] = "done")
    IN  /\ pc[r] # "rejected"
        /\ calls[r] = alone.calls
        /\ resp[r] = alone.resp
        /\ (alone.calls = <<>>) => (pc[r] = "done" /\ upstream[r] = NoCall)

\* Everything the worker holds for request r.
SlotState(r) == <<pc[r], req[r], env[r], upstream[r], calls[r], resp[r]>>

\* A step that changes what is held for one request leaves what is held for
\* every other request as it was.
OneRequestPerStep ==
    \A r \in Slots : \A s \in Slots \ {r} :
        (SlotState(r)' # SlotState(r)) => (SlotState(s)' = SlotState(s))

\* C11: requests are independent under concurrency.  With two requests in
\* flight and their handler steps and upstream completions interleaved in
\* every order, the upstream request and the response of each request are
\* those of the same request handled alone: a function of its own method,
\* path and parameters (and, for /health, the time it is handled at), the
\* credential and the outcome of its own upstream call; and no step
\* taken for one request changes anything held for the other.
C11_Independent ==
    /\ [](\A r \in Live : AsAlone(r))
    /\ [][OneRequestPerStep]_vars

\* C11 witness: request 1 has been answered from its own upstream failure
\* while a different request, under another key, sits in flight with a
\* different upstream answer already complete.
C11_Witness ==
    /\ Answered(1)
    /\ upstream[1].state = "complete"
    /\ upstream[1].status = 429
    /\ pc[2] = "awaitJson"
    /\ upstream[2].state = "complete"
    /\ upstream[2].status = 200
    /\ upstream[2].body # upstream[1].body
    /\ req[2].path # req[1].path
    /\ env[2] # env[1]

\* A query value as the upstream reads it: percent-decoded, "+" a space.
QueryDecodeChunk(c) ==
    CASE c = "%2C" -> ","
      [] c = "%20" -> " "
      [] c = "+" -> " "
      [] OTHER -> c

QueryDecode(cs) == [i \in 1..Len(cs) |-> QueryDecodeChunk(cs[i])]

\* The query parameters of an upstream request, names with decoded values.
SentParameters(call) ==
    {<<call.query[i][1], QueryDecode(call.query[i][2])>> : i \in 1..Len(call.query)}

\* A parameter is in the inbound request, with or without a value.
Present(v) == v # JSNull

\* A parameter is in the inbound request with a non-empty value.
NonEmpty(v) == v # JSNull /\ v.cs # <<>>

\* The reference: the parameters a translator is to send, Given telling
\* which inbound parameters count as supplied.
ReferenceParameters(path, params, Given(_)) ==
    CASE path = "/api/quotes/latest" ->
            IF Given(params.id) THEN {<<"id", params.id.cs>>}
            ELSE {<<"symbol", params.symbol.cs>>}
      [] path = "/api/quotes/historical" ->
            {<<"id", params.id.cs>>,
             <<"interval", IF Given(params.interval) THEN params.interval.cs
                           ELSE <<"daily">> >>}
            \cup (IF Given(params.time_start)
                  THEN {<<"time_start", params.time_start.cs>>} ELSE {})
            \cup (IF Given(params.time_end)
                  THEN {<<"time_end", params.time_end.cs>>} ELSE {})
      [] path = "/api/map" -> {<<"symbol", params.symbol.cs>>}

\* Every upstream request of r is the reference request: the fixed resource
\* of its translator, the configured key in X-CMC_PRO_API_KEY, and exactly
\* the reference parameters, each once, with the inbound values.
BuildsReference(r, Given(_)) ==
    \A i \in 1..Len(calls[r]) :
        LET call == calls[r][i]
            ref == ReferenceParameters(req[r].path, req[r].params, Given)
        IN  /\ call.base = CMC_API_BASE
            /\ call.resource = ResourceOf(req[r].path)
            /\ call.headers["X-CMC_PRO_API_KEY"] = env[r].CMC_API_KEY.s
            /\ SentParameters(call) = ref
            /\ Len(call.query) = Cardinality(ref)

\* C12 as stated: the upstream request matches the reference, a parameter
\* counting as supplied when it is present in the inbound request: latest
\* sends id when id is present, otherwise symbol; historical sends id and
\* interval (the inbound value, "daily" when absent) and time_start and
\* time_end each if and only if present; map sends symbol.
C12_Original ==
    \A r \in Live : BuildsReference(r, Present)

\* C12 amended: the same reference, a parameter counting as supplied when
\* it is present with a non-empty value (a parameter given empty, as in
\* "?time_start=", is treated as absent).
C12_UpstreamRequest ==
    \A r \in Live : BuildsReference(r, NonEmpty)

\* C12 witness: a historical call built from an id list with a space, an
\* empty time_start, a time_end and no interval.
C12_Witness ==
    /\ pc[1] = "awaitFetch"
    /\ Len(calls[1]) = 1
    /\ req[1].path = "/api/quotes/historical"
    /\ req[1].params.id = QStr(<<"1", ",", " ", "1027">>)
    /\ req[1].params.time_start = QStr(<<>>)
    /\ req[1].params.time_end # JSNull
    /\ req[1].params.time_end # QStr(<<>>)
    /\ req[1].params.interval = JSNull
    /\ calls[1][1].query # <<>>

====
